---- MODULE Spec2Model ----
(***************************************************************************)
(* State-machine model of the rust-ovh client library:                     *)
(*   src/src/client.rs      OvhClient: construction, signing, HTTP verbs   *)
(*   src/src/dns_record.rs  OvhDnsRecord: get, list, create, delete,       *)
(*                          refresh_zone, normalize                        *)
(*   src/src/email_redir.rs OvhMailRedir: list, create, delete             *)
(*                                                                         *)
(* One caller owns one client value and runs one top-level operation at a  *)
(* time.  An operation is a sequence of client calls (`calls`); the calls  *)
(* of a list fan-out are in flight together and interleave at their await  *)
(* points.  The server and the local clock are the environment: every      *)
(* response and every reading of now() is drawn from a small set.          *)
(***************************************************************************)
EXTENDS Integers, Sequences, FiniteSets, TLC

VARIABLES
    client,   \* the caller's OvhClient value, or None when it holds none
    built,    \* what the last constructor call returned
    op,       \* the top-level operation the caller is awaiting
    calls     \* the client calls the operation is awaiting now, in the order of
              \* their futures; a call holds the HTTP request it has in flight

vars == <<client, built, op, calls>>

(***************************************************************************)
(* Bounds of the model.                                                    *)
(***************************************************************************)
\* the largest number of ids a list endpoint returns
MaxIds == 2

(***************************************************************************)
(* Option and Result values.                                               *)
(***************************************************************************)
None == [tag |-> "None"]
Some(v) == [tag |-> "Some", val |-> v]
Ok(v) == [tag |-> "Ok", val |-> v]
Err(e) == [tag |-> "Err", err |-> e]
\* a panic unwinds through every caller: no value is returned
Panic == [tag |-> "Panic"]
\* an await that has not completed yet
Pending == [tag |-> "Pending"]

IsOk(r) == r.tag = "Ok"
IsErr(r) == r.tag = "Err"

(***************************************************************************)
(* error.rs: OvhError.  `status` and `url` are what a reqwest::Error       *)
(* carries when it comes from error_for_status(); client.rs maps its       *)
(* errors to the bare variant.                                             *)
(***************************************************************************)
OvhError(kind, detail) == [kind |-> kind, detail |-> detail, status |-> 0, url |-> ""]
ErrReqwest == OvhError("Reqwest", "")
ErrParseInt == OvhError("ParseIntError", "")
ErrTryFromInt == OvhError("TryFromInt", "")
ErrSerde == OvhError("Serde", "")
ErrGeneric(msg) == OvhError("Generic", msg)
\* reqwest's own errors, converted by `?` in the resource modules
ErrStatus(status, url) == [kind |-> "Reqwest", detail |-> "status", status |-> status, url |-> url]
ErrDecode == OvhError("Reqwest", "decode")

(***************************************************************************)
(* client.rs: ENDPOINTS and construction.                                  *)
(***************************************************************************)
ENDPOINTS ==
    [e \in {"ovh-eu", "ovh-us", "ovh-ca", "kimsufi-eu", "kimsufi-ca",
            "soyoustart-eu", "soyoustart-ca"} |->
        CASE e = "ovh-eu" -> "https://eu.api.ovh.com/1.0"
          [] e = "ovh-us" -> "https://api.us.ovhcloud.com/1.0"
          [] e = "ovh-ca" -> "https://ca.api.ovh.com/1.0"
          [] e = "kimsufi-eu" -> "https://eu.api.kimsufi.com/1.0"
          [] e = "kimsufi-ca" -> "https://ca.api.kimsufi.com/1.0"
          [] e = "soyoustart-eu" -> "https://eu.api.soyoustart.com/1.0"
          [] e = "soyoustart-ca" -> "https://ca.api.soyoustart.com/1.0"]

\* a lookup that answers an unknown identifier with the first entry
EndpointsGetDefaulting(endpoint) ==
    IF endpoint \in DOMAIN ENDPOINTS THEN Some(ENDPOINTS[endpoint])
    ELSE Some(ENDPOINTS["ovh-eu"])

\* ENDPOINTS.get(endpoint)
EndpointsGet(endpoint) ==
    IF endpoint \in DOMAIN ENDPOINTS THEN Some(ENDPOINTS[endpoint]) ELSE None

\* OvhClient::new
OvhClientNew(endpoint, application_key, application_secret, consumer_key) ==
    LET e == EndpointsGet(endpoint) IN
    IF e.tag = "None" THEN None
    ELSE Some([endpoint |-> e.val,
               application_key |-> application_key,
               application_secret |-> application_secret,
               consumer_key |-> consumer_key])

\* Ini::get(section, key) on a loaded configuration (messages are written without their backquotes)
IniGet(conf, section, key) ==
    IF <<section, key>> \in DOMAIN conf.data THEN Some(conf.data[<<section, key>>])
    ELSE None

\* OvhClient::from_conf
OvhClientFromConf(conf) ==
    IF ~conf.loads THEN Err(ErrGeneric("load"))
    ELSE LET endpoint == IniGet(conf, "default", "endpoint") IN
    IF endpoint.tag = "None" THEN Err(ErrGeneric("missing key endpoint"))
    ELSE LET application_key == IniGet(conf, endpoint.val, "application_key") IN
    IF application_key.tag = "None" THEN Err(ErrGeneric("missing key application_key"))
    ELSE LET application_secret == IniGet(conf, endpoint.val, "application_secret") IN
    IF application_secret.tag = "None" THEN Err(ErrGeneric("missing key application_secret"))
    ELSE LET consumer_key == IniGet(conf, endpoint.val, "consumer_key") IN
    IF consumer_key.tag = "None" THEN Err(ErrGeneric("missing key consumer_key"))
    ELSE LET c == OvhClientNew(endpoint.val, application_key.val,
                               application_secret.val, consumer_key.val) IN
    IF c.tag = "None" THEN Err(ErrGeneric("failed to create client"))
    ELSE Ok(c.val)

(***************************************************************************)
(* Inputs of construction.                                                 *)
(***************************************************************************)
EndpointIds == DOMAIN ENDPOINTS \cup {"wrong-endpoint", "not-a-real-endpoint", ""}
AppKey == "my_app_key"
AppSecret == "my_app_secret"
ConsumerKey == "my_consumer_key"

ConfFor(endpoint, keys) ==
    [loads |-> TRUE,
     data |-> [k \in {<<"default", "endpoint">>} \cup {<<endpoint, n>> : n \in keys} |->
                 CASE k[2] = "endpoint" -> endpoint
                   [] k[2] = "application_key" -> AppKey
                   [] k[2] = "application_secret" -> AppSecret
                   [] k[2] = "consumer_key" -> ConsumerKey]]

AllKeys == {"application_key", "application_secret", "consumer_key"}

Confs ==
    {ConfFor("ovh-eu", AllKeys),
     ConfFor("not-a-real-endpoint", AllKeys),
     ConfFor("ovh-eu", AllKeys \ {"consumer_key"}),
     ConfFor("ovh-eu", AllKeys \ {"application_secret"}),
     ConfFor("ovh-eu", AllKeys \ {"application_key"}),
     [loads |-> TRUE, data |-> [k \in {<<"ovh-eu", "application_key">>} |-> AppKey]],
     [loads |-> FALSE, data |-> [k \in {<<"default", "endpoint">>} |-> "ovh-eu"]]}

(***************************************************************************)
(* Text.  A response body read with text() is a sequence of characters; a  *)
(* header value, a URL and a request body are strings.                     *)
(***************************************************************************)
Digits == <<"0", "1", "2", "3", "4", "5", "6", "7", "8", "9">>

DigitValue(ch) == CHOOSE d \in 0..9 : Digits[d + 1] = ch
IsDigit(ch) == \E d \in 0..9 : Digits[d + 1] = ch

RECURSIVE DigitsValue(_, _)
DigitsValue(chars, acc) ==
    IF chars = <<>> THEN acc
    ELSE DigitsValue(Tail(chars), acc * 10 + DigitValue(Head(chars)))

\* a parse that skips the characters that are no digits
ParseU64Lenient(chars) ==
    LET ds == SelectSeq(chars, IsDigit) IN
    IF ds = <<>> THEN Some(0) ELSE Some(DigitsValue(ds, 0))

\* str::parse::<u64>(): an optional leading "+", then one digit or more and
\* nothing else (the values of the model stay far below u64::MAX)
ParseU64(chars) ==
    LET ds == IF chars # <<>> /\ Head(chars) = "+" THEN Tail(chars) ELSE chars IN
    IF ds = <<>> THEN None
    ELSE IF \E k \in 1..Len(ds) : ~IsDigit(ds[k]) THEN None
    ELSE Some(DigitsValue(ds, 0))

RECURSIVE DecStr(_)
DecStr(n) == IF n < 10 THEN Digits[n + 1] ELSE DecStr(n \div 10) \o Digits[(n % 10) + 1]

\* i64::to_string()
I64ToString(n) == IF n < 0 THEN "-" \o DecStr(0 - n) ELSE DecStr(n)

RECURSIVE Join(_, _)
\* [&str]::join(sep)
Join(values, sep) ==
    IF values = <<>> THEN ""
    ELSE IF Len(values) = 1 THEN values[1]
    ELSE values[1] \o sep \o Join(Tail(values), sep)

(***************************************************************************)
(* client.rs: now(), time_delta, signature, headers.                       *)
(***************************************************************************)
\* the readings of now() (SystemTime is not monotonic)
LocalTimes == {1005, 1010}

\* what the transport answers to GET /auth/time: no answer, or a body
TimeBodies ==
    {<<"1", "0", "0", "0">>, <<"1", "0", "1", "0">>, <<"1", "0", "0", "0", "\n">>, <<>>}

\* u64 subtraction: below zero it panics where overflow is checked and wraps
\* where it is not; a wrapped value 2^64 - m is written [wrapped, m]
U64Sub(a, b) ==
    IF a >= b THEN {[tag |-> "Ok", wrapped |-> FALSE, val |-> a - b]}
    ELSE {[tag |-> "Panic", wrapped |-> FALSE, val |-> 0],
          [tag |-> "Ok", wrapped |-> TRUE, val |-> b - a]}

\* u64 -> i64 try_into(): 2^64 - m is above i64::MAX for every m the model reaches
TryIntoI64(x) == IF x.wrapped THEN Err(ErrTryFromInt) ELSE Ok(x.val)

\* OvhClient::time_delta after get_noauth("/auth/time") returned `resp`
\* (Err, or Ok of the body text), with now() reading `local`: the outcomes
TimeDelta(resp, local) ==
    IF resp.tag = "Err" THEN {resp}
    ELSE LET server_time == ParseU64(resp.val) IN
    IF server_time.tag = "None" THEN {Err(ErrParseInt)}
    ELSE {IF d.tag = "Panic" THEN Panic ELSE TryIntoI64(d) :
             d \in U64Sub(local, server_time.val)}

\* a signed string that leaves the body out
SignedStringNoBody(c, url, timestamp, method, body) ==
    Join(<<c.application_secret, c.consumer_key, method, url, timestamp>>, "+")

\* OvhClient::signature: the string that is hashed
SignedString(c, url, timestamp, method, body) ==
    Join(<<c.application_secret, c.consumer_key, method, url, body, timestamp>>, "+")

\* sha1::Sha1::from(s).hexdigest(): the digest is not computed, it is named
Sha1Hex(s) == "sha1hex(" \o s \o ")"

\* OvhClient::signature
Signature(c, url, timestamp, method, body) ==
    "$1$" \o Sha1Hex(SignedString(c, url, timestamp, method, body))

\* OvhClient::url
Url(c, path) == c.endpoint \o path

Header(value, sensitive) == [value |-> value, sensitive |-> sensitive]

\* OvhClient::default_headers
DefaultHeaders(c) == ("X-Ovh-Application" :> Header(c.application_key, FALSE))

\* insert_sensitive_header / HeaderMap::insert
Insert(headers, name, h) == [n \in DOMAIN headers \cup {name} |-> IF n = name THEN h ELSE headers[n]]

\* headers that always carry a Content-Type
GenHeadersAlwaysTyped(c, url, method, body, time_delta, now) ==
    LET timestamp == I64ToString(now + time_delta)
        h1 == Insert(DefaultHeaders(c), "X-Ovh-Consumer", Header(c.consumer_key, TRUE))
        h2 == Insert(h1, "X-Ovh-Timestamp", Header(timestamp, TRUE))
        h3 == Insert(h2, "X-Ovh-Signature",
                     Header(Signature(c, url, timestamp, method, body), TRUE))
    IN Insert(h3, "Content-Type", Header("application/json; charset=utf-8", FALSE))

\* headers stamped with the local time alone
GenHeadersUnskewed(c, url, method, body, time_delta, now) ==
    LET timestamp == I64ToString(now)
        h1 == Insert(DefaultHeaders(c), "X-Ovh-Consumer", Header(c.consumer_key, TRUE))
        h2 == Insert(h1, "X-Ovh-Timestamp", Header(timestamp, TRUE))
        h3 == Insert(h2, "X-Ovh-Signature",
                     Header(Signature(c, url, timestamp, method, body), TRUE))
    IN IF body # ""
       THEN Insert(h3, "Content-Type", Header("application/json; charset=utf-8", FALSE))
       ELSE h3

\* headers stamped with the skew of the first call in flight
GenHeadersSharedSkew(c, url, method, body, time_delta, now) ==
    LET timestamp == I64ToString(now + calls[1].skew.delta)
        h1 == Insert(DefaultHeaders(c), "X-Ovh-Consumer", Header(c.consumer_key, TRUE))
        h2 == Insert(h1, "X-Ovh-Timestamp", Header(timestamp, TRUE))
        h3 == Insert(h2, "X-Ovh-Signature",
                     Header(Signature(c, url, timestamp, method, body), TRUE))
    IN IF body # ""
       THEN Insert(h3, "Content-Type", Header("application/json; charset=utf-8", FALSE))
       ELSE h3

\* OvhClient::gen_headers once time_delta() returned Ok(time_delta), with
\* now() reading `now`
GenHeaders(c, url, method, body, time_delta, now) ==
    LET timestamp == I64ToString(now + time_delta)
        h1 == Insert(DefaultHeaders(c), "X-Ovh-Consumer", Header(c.consumer_key, TRUE))
        h2 == Insert(h1, "X-Ovh-Timestamp", Header(timestamp, TRUE))
        h3 == Insert(h2, "X-Ovh-Signature",
                     Header(Signature(c, url, timestamp, method, body), TRUE))
    IN IF body # ""
       THEN Insert(h3, "Content-Type", Header("application/json; charset=utf-8", FALSE))
       ELSE h3

\* RequestBuilder: method(url).headers(headers).body(body); `auth` tells a
\* request of get_noauth from one of the signing methods
Request(auth, method, url, headers, body) ==
    [sent |-> TRUE, auth |-> auth, method |-> method, url |-> url,
     headers |-> headers, body |-> body]

(***************************************************************************)
(* JSON.  A request body is the string serde_json::to_string() writes; a   *)
(* response body is the JSON value the server sent, named by its shape.    *)
(***************************************************************************)
JsonString(s) == "\"" \o s \o "\""
JsonOptString(o) == IF o.tag = "None" THEN "null" ELSE JsonString(o.val)
JsonOptNumber(o) == IF o.tag = "None" THEN "null" ELSE I64ToString(o.val)
JsonBool(b) == IF b THEN "true" ELSE "false"

\* serde_json::to_string(&OvhDnsRecordCreate {..})
DnsRecordCreateJson(p) ==
    "{\"fieldType\":" \o JsonString(p.record_type)
        \o ",\"subDomain\":" \o JsonOptString(p.subdomain)
        \o ",\"target\":" \o JsonString(p.target)
        \o ",\"ttl\":" \o JsonOptNumber(p.ttl) \o "}"

\* serde_json::to_string(&OvhMailRedirCreate {..})
MailRedirCreateJson(p) ==
    "{\"from\":" \o JsonString(p.from)
        \o ",\"to\":" \o JsonString(p.to)
        \o ",\"localCopy\":" \o JsonBool(p.local_copy) \o "}"

\* serde_json::to_string(data) for the payload types of the model
ToJsonString(data) ==
    CASE data.type = "dns_create" -> Ok(DnsRecordCreateJson(data))
      [] data.type = "mail_create" -> Ok(MailRedirCreateJson(data))

JNull == [t |-> "null"]
JStr(s) == [t |-> "string", s |-> s]
JNum(n) == [t |-> "number", n |-> n]

\* response bodies
JEmpty == [t |-> "empty"]
JErrorObject == [t |-> "error", message |-> "This service does not exist"]
JU64Array(ids) == [t |-> "u64_array", items |-> ids]
JStrArray(ids) == [t |-> "string_array", items |-> ids]
JDnsRecord(id, zone, subDomain, ttl) ==
    [t |-> "dns_record", id |-> id, zone |-> zone, fieldType |-> "A",
     subDomain |-> subDomain, target |-> "93.184.216.34", ttl |-> ttl]
JMailRedir(id) ==
    [t |-> "mail_redir", id |-> id, from |-> "foo@example.com", to |-> "admin@example.com"]

HttpResponse(status, body) == [status |-> status, body |-> body]

\* Response::error_for_status(): an error for 4xx and 5xx only
ErrorForStatus(resp, url) ==
    IF 400 <= resp.status /\ resp.status <= 599 THEN Err(ErrStatus(resp.status, url))
    ELSE Ok(resp)

\* an Option<String> / Option<i32> field read by serde
OptOfJson(j) == IF j.t = "null" THEN None ELSE IF j.t = "string" THEN Some(j.s) ELSE Some(j.n)

\* Response::json::<OvhDnsRecord>()
JsonDnsRecord(resp) ==
    IF resp.body.t = "dns_record"
    THEN Ok([id |-> resp.body.id, zone |-> resp.body.zone,
             record_type |-> resp.body.fieldType,
             subdomain |-> OptOfJson(resp.body.subDomain),
             target |-> resp.body.target,
             ttl |-> OptOfJson(resp.body.ttl)])
    ELSE Err(ErrDecode)

\* Response::json::<Vec<u64>>()
JsonU64Vec(resp) == IF resp.body.t = "u64_array" THEN Ok(resp.body.items) ELSE Err(ErrDecode)

\* Response::json::<Vec<String>>()
JsonStringVec(resp) == IF resp.body.t = "string_array" THEN Ok(resp.body.items) ELSE Err(ErrDecode)

\* Response::json::<OvhMailRedir>()
JsonMailRedir(resp) ==
    IF resp.body.t = "mail_redir"
    THEN Ok([id |-> resp.body.id, from |-> resp.body.from, to |-> resp.body.to])
    ELSE Err(ErrDecode)

(***************************************************************************)
(* dns_record.rs and email_redir.rs: what each operation does with the     *)
(* value a client call returns.                                            *)
(***************************************************************************)
Unit == [t |-> "unit"]

\* a normalization that forgets the TTL with the subdomain
NormalizeTogether(record) ==
    IF record.subdomain = Some("") \/ record.ttl = Some(0)
    THEN [record EXCEPT !.subdomain = None, !.ttl = None]
    ELSE record

\* OvhDnsRecord::normalize
Normalize(record) ==
    LET r1 == IF record.subdomain = Some("") THEN [record EXCEPT !.subdomain = None]
              ELSE record
    IN IF r1.ttl = Some(0) THEN [r1 EXCEPT !.ttl = None] ELSE r1

\* the characters of the strings records are made of
Chars(s) ==
    CASE s = "" -> <<>>
      [] s = "www" -> <<"w", "w", "w">>
      [] s = "example.com" -> <<"e", "x", "a", "m", "p", "l", "e", ".", "c", "o", "m">>

\* the subdomain or "", then ".", the zone and "."
FqnUnwrapOrDefault(record) ==
    Chars(IF record.subdomain.tag = "Some" THEN record.subdomain.val ELSE "")
        \o <<".">> \o Chars(record.zone) \o <<".">>

\* OvhDnsRecord::fqn, as the characters of the String it returns
Fqn(record) ==
    IF record.subdomain.tag = "Some"
    THEN Chars(record.subdomain.val) \o <<".">> \o Chars(record.zone) \o <<".">>
    ELSE Chars(record.zone) \o <<".">>

\* `?` on a Result: TRUE when the function returns early
Returns(r) == r.tag # "Ok"

\* OvhDnsRecord::get from the value of client.get(..).await on
DnsGetTail(ret, url) ==
    IF Returns(ret) THEN ret
    ELSE LET checked == ErrorForStatus(ret.val, url) IN
    IF Returns(checked) THEN checked
    ELSE LET record == JsonDnsRecord(checked.val) IN
    IF Returns(record) THEN record
    ELSE Ok(Normalize(record.val))

\* OvhDnsRecord::list_ids_filtered from the value of client.get(..).await on
DnsListIdsTail(ret, url) ==
    IF Returns(ret) THEN ret
    ELSE LET checked == ErrorForStatus(ret.val, url) IN
    IF Returns(checked) THEN checked
    ELSE JsonU64Vec(checked.val)

\* OvhDnsRecord::refresh_zone from the value of client.post_empty(..).await on
DnsRefreshTail(ret, url) ==
    IF Returns(ret) THEN ret
    ELSE LET checked == ErrorForStatus(ret.val, url) IN
    IF Returns(checked) THEN checked ELSE Ok(Unit)

\* OvhMailRedir::get_redir from the value of client.get(..).await on
MailGetRedirTail(ret) == IF Returns(ret) THEN ret ELSE JsonMailRedir(ret.val)

\* OvhMailRedir::list up to the ids, from the value of client.get(..).await on
MailListIdsTail(ret, url) ==
    IF Returns(ret) THEN ret
    ELSE LET checked == ErrorForStatus(ret.val, url) IN
    IF Returns(checked) THEN checked
    ELSE JsonStringVec(checked.val)

\* a join that keeps the outputs in the order the futures complete
JoinAllStoreByCompletion(outputs, k, out) ==
    LET free == CHOOSE j \in 1..Len(outputs) :
                    /\ outputs[j].tag = "Pending"
                    /\ \A h \in 1..(j - 1) : outputs[h].tag # "Pending"
    IN [outputs EXCEPT ![free] = out]

\* future::join_all: the output of the k-th future is kept at index k
JoinAllStore(outputs, k, out) == [outputs EXCEPT ![k] = out]

JoinAllReady(outputs) == \A k \in 1..Len(outputs) : outputs[k].tag # "Pending"

\* Vec<Result<T>>::into_iter().collect::<Result<Vec<T>>>(): the first Err, or every value
CollectResults(outputs) ==
    IF \E k \in 1..Len(outputs) : outputs[k].tag = "Err"
    THEN outputs[CHOOSE k \in 1..Len(outputs) :
                    /\ outputs[k].tag = "Err"
                    /\ \A h \in 1..(k - 1) : outputs[h].tag # "Err"]
    ELSE Ok([k \in 1..Len(outputs) |-> outputs[k].val])

\* into_iter().filter_map(|c| c.ok()).collect()
FilterMapOk(outputs) ==
    LET oks == SelectSeq(outputs, IsOk) IN [k \in 1..Len(oks) |-> oks[k].val]

(***************************************************************************)
(* Paths.                                                                  *)
(***************************************************************************)
Zone == "example.com"
Domain == "example.com"

DnsRecordPath(zone, id) == "/domain/zone/" \o zone \o "/record/" \o DecStr(id)
DnsRefreshPath(zone) == "/domain/zone/" \o zone \o "/refresh"

\* the url of list_ids_filtered
DnsCollectionPath(zone, record_type, subdomain) ==
    LET o1 == IF record_type.tag = "Some" THEN <<"fieldType=" \o record_type.val>> ELSE <<>>
        o2 == IF subdomain.tag = "Some" THEN <<"subDomain=" \o subdomain.val>> ELSE <<>>
        options == o1 \o o2
    IN IF options = <<>> THEN "/domain/zone/" \o zone \o "/record"
       ELSE "/domain/zone/" \o zone \o "/record?" \o Join(options, "&")

MailCollectionPath(domain) == "/email/domain/" \o domain \o "/redirection"
MailRedirPath(domain, id) == "/email/domain/" \o domain \o "/redirection/" \o id

(***************************************************************************)
(* The server.  What it answers depends on what the endpoint serves.       *)
(***************************************************************************)
\* the ids a collection endpoint lists, in the server's order
ServerIds(n) == [k \in 1..n |-> n + 1 - k]
ServerMailIds(n) == [k \in 1..n |-> DecStr(n + 1 - k)]

\* the subDomain and ttl of a record as the server writes them
RawVariants == {<<JStr(""), JNum(60)>>, <<JStr("www"), JNum(0)>>, <<JNull, JNull>>}

FailResponses == {HttpResponse(404, JErrorObject), HttpResponse(304, JEmpty)}

Responses(call) ==
    FailResponses \cup
    CASE call.want = "dns_ids" -> {HttpResponse(200, JU64Array(ServerIds(n))) : n \in 0..MaxIds}
      [] call.want = "dns_record" ->
            {HttpResponse(200, JDnsRecord(call.id, Zone, v[1], v[2])) : v \in RawVariants}
      [] call.want = "mail_ids" -> {HttpResponse(200, JStrArray(ServerMailIds(n))) : n \in 0..MaxIds}
      [] call.want = "mail_redir" -> {HttpResponse(200, JMailRedir(call.id))}
      [] OTHER -> {HttpResponse(200, JEmpty)}

TimeResponses == {Err(ErrReqwest)} \cup {Ok(b) : b \in TimeBodies}

(***************************************************************************)
(* Client calls.                                                           *)
(***************************************************************************)
\* the readings of a call: now() and the server time in time_delta, their
\* difference when it is computed, and now() in gen_headers; `tresp` of a
\* call is what get_noauth("/auth/time") returned to it
NoSkew == [l |-> 0, r |-> 0, delta |-> 0, now |-> 0]

\* no request in flight
NoReq == [sent |-> FALSE, auth |-> FALSE, method |-> "", url |-> "", headers |-> <<>>, body |-> ""]

NewCall(fn, path, body, want, id) ==
    [fn |-> fn, path |-> path, body |-> body, want |-> want, id |-> id,
     pc |-> "start", skew |-> NoSkew, req |-> NoReq, ret |-> Pending,
     tresp |-> Pending, ntime |-> 0, nsigned |-> 0]

\* the verb each method of OvhClient signs and sends
Method(fn) ==
    CASE fn = "get" -> "GET"
      [] fn = "delete" -> "DELETE"
      [] fn = "post" -> "POST"
      [] fn = "post_empty" -> "POST"
      [] fn = "put" -> "PUT"
      [] fn = "get_noauth" -> "GET"
      [] fn = "time_delta" -> "GET"

\* OvhClient::post_empty: a signed POST with the empty body
PostEmpty(path, want) == NewCall("post_empty", path, "", want, 0)

\* `at` is the await the operation returned from
OpIdle ==
    [kind |-> "idle", pc |-> "idle", at |-> "", apply_change |-> FALSE, ids |-> <<>>,
     outputs |-> <<>>, record |-> None, result |-> Pending, fqn |-> None]

Done(o, result) == [o EXCEPT !.pc = "done", !.at = o.pc, !.result = result, !.record = None]

\* the operation from the point where call i returned ret: no await lies
\* between a call's return and the next call or the operation's own return
Continue(o, cs, i, ret) ==
    LET url == Url(client.val, cs[i].path) IN
    IF ret.tag = "Panic"
    THEN [op |-> [o EXCEPT !.pc = "panicked", !.at = o.pc, !.result = Panic,
                           !.record = None], calls |-> cs]
    ELSE CASE o.pc = "call" ->
            \* OvhClient's own methods, OvhMailRedir::create and ::delete
            [op |-> Done(o, ret), calls |-> cs]
      [] o.pc = "dns_get" ->
            [op |-> Done(o, DnsGetTail(ret, url)), calls |-> cs]
      [] o.pc = "dns_ids" ->
            \* OvhDnsRecord::list_filtered
            LET ids == DnsListIdsTail(ret, url) IN
            IF Returns(ids) THEN [op |-> Done(o, ids), calls |-> cs]
            ELSE IF ids.val = <<>> THEN [op |-> Done(o, CollectResults(<<>>)), calls |-> cs]
            ELSE [op |-> [o EXCEPT !.pc = "dns_join", !.ids = ids.val,
                                   !.outputs = [k \in 1..Len(ids.val) |-> Pending]],
                  calls |-> [k \in 1..Len(ids.val) |->
                              NewCall("get", DnsRecordPath(Zone, ids.val[k]), "",
                                      "dns_record", ids.val[k])]]
      [] o.pc = "dns_join" ->
            LET outputs == JoinAllStore(o.outputs, i, DnsGetTail(ret, url)) IN
            IF JoinAllReady(outputs)
            THEN [op |-> Done([o EXCEPT !.outputs = outputs], CollectResults(outputs)),
                  calls |-> cs]
            ELSE [op |-> [o EXCEPT !.outputs = outputs], calls |-> cs]
      [] o.pc = "mail_ids" ->
            \* OvhMailRedir::list
            LET ids == MailListIdsTail(ret, url) IN
            IF Returns(ids) THEN [op |-> Done(o, ids), calls |-> cs]
            ELSE IF ids.val = <<>> THEN [op |-> Done(o, Ok(FilterMapOk(<<>>))), calls |-> cs]
            ELSE [op |-> [o EXCEPT !.pc = "mail_join", !.ids = ids.val,
                                   !.outputs = [k \in 1..Len(ids.val) |-> Pending]],
                  calls |-> [k \in 1..Len(ids.val) |->
                              NewCall("get", MailRedirPath(Domain, ids.val[k]), "",
                                      "mail_redir", ids.val[k])]]
      [] o.pc = "mail_join" ->
            LET outputs == JoinAllStore(o.outputs, i, MailGetRedirTail(ret)) IN
            IF JoinAllReady(outputs)
            THEN [op |-> Done([o EXCEPT !.outputs = outputs], Ok(FilterMapOk(outputs))),
                  calls |-> cs]
            ELSE [op |-> [o EXCEPT !.outputs = outputs], calls |-> cs]
      [] o.pc = "dns_create" ->
            \* OvhDnsRecord::create
            LET record == DnsGetTail(ret, url) IN
            IF Returns(record) THEN [op |-> Done(o, record), calls |-> cs]
            ELSE IF o.apply_change
            THEN [op |-> [o EXCEPT !.pc = "dns_create_refresh", !.record = Some(record.val)],
                  calls |-> <<cs[i], PostEmpty(DnsRefreshPath(Zone), "none")>>]
            ELSE [op |-> Done(o, record), calls |-> cs]
      [] o.pc = "dns_create_refresh" ->
            LET refreshed == DnsRefreshTail(ret, url) IN
            IF Returns(refreshed) THEN [op |-> Done(o, refreshed), calls |-> cs]
            ELSE [op |-> Done(o, Ok(o.record.val)), calls |-> cs]
      [] o.pc = "dns_delete" ->
            \* OvhDnsRecord::delete
            LET checked == DnsRefreshTail(ret, url) IN
            IF Returns(checked) THEN [op |-> Done(o, checked), calls |-> cs]
            ELSE IF o.apply_change
            THEN [op |-> [o EXCEPT !.pc = "dns_refresh"],
                  calls |-> <<cs[i], PostEmpty(DnsRefreshPath(Zone), "none")>>]
            ELSE [op |-> Done(o, Ok(Unit)), calls |-> cs]
      [] o.pc = "dns_refresh" ->
            \* OvhDnsRecord::refresh_zone, alone or at the end of delete
            [op |-> Done(o, DnsRefreshTail(ret, url)), calls |-> cs]

\* main of examples/email-redir: the exit status after the subcommand's
\* call returned `result`; `?` leaves main with the error, else main ends in Ok(())
MainExit(result) == IF IsErr(result) THEN 1 ELSE 0

(***************************************************************************)
(* Inputs of the operations.                                               *)
(***************************************************************************)
RawPaths == {"/me"}
MailPayloads ==
    {[type |-> "mail_create", from |-> "foo@example.com", to |-> "admin@example.com",
      local_copy |-> lc] : lc \in BOOLEAN}
DnsPayloads ==
    {[type |-> "dns_create", record_type |-> "A", subdomain |-> Some("www"),
      target |-> "93.184.216.34", ttl |-> Some(86400)],
     [type |-> "dns_create", record_type |-> "TXT", subdomain |-> None,
      target |-> "v=spf1 -all", ttl |-> None]}
\* records the caller builds itself: the fields of OvhDnsRecord are public
LocalRecords ==
    {[id |-> 1, zone |-> Zone, subdomain |-> sd, ttl |-> Some(86400), record_type |-> "A",
      target |-> "93.184.216.34"] : sd \in {None, Some("www"), Some("")}}
Filters == {<<None, None>>, <<Some("TXT"), Some("foo")>>}
RecordIds == 1..MaxIds

(***************************************************************************)
(* The state machine.                                                      *)
(***************************************************************************)
\* `sent`: the requests the constructor handed to a transport
NotBuilt == [via |-> "none", endpoint |-> "", ret |-> None, sent |-> <<>>]

Init ==
    /\ client = None
    /\ built = NotBuilt
    /\ op = OpIdle
    /\ calls = <<>>

\* let c = OvhClient::new(endpoint, ..)
New(endpoint) ==
    /\ op.pc = "idle"
    /\ LET ret == OvhClientNew(endpoint, AppKey, AppSecret, ConsumerKey) IN
       /\ built' = [via |-> "new", endpoint |-> endpoint, ret |-> ret, sent |-> <<>>]
       /\ client' = ret
    /\ UNCHANGED <<op, calls>>

\* let c = OvhClient::from_conf(path)
FromConf(conf) ==
    /\ op.pc = "idle"
    /\ LET ret == OvhClientFromConf(conf)
           endpoint == IniGet(conf, "default", "endpoint") IN
       /\ built' = [via |-> "from_conf",
                    endpoint |-> IF conf.loads /\ endpoint.tag = "Some" THEN endpoint.val ELSE "",
                    ret |-> ret, sent |-> <<>>]
       /\ client' = IF ret.tag = "Ok" THEN Some(ret.val) ELSE None
    /\ UNCHANGED <<op, calls>>

\* the caller holds a client and awaits nothing
Ready == op.pc = "idle" /\ client.tag = "Some"

Begin(kind, pc, apply_change) ==
    [OpIdle EXCEPT !.kind = kind, !.pc = pc, !.apply_change = apply_change]

\* c.get(path), c.delete(path), c.get_noauth(path), c.time_delta()
ClientCall(fn, path) ==
    /\ Ready
    /\ fn \in {"get", "delete", "get_noauth", "time_delta"}
    /\ op' = Begin("client." \o fn, "call", FALSE)
    /\ calls' = <<NewCall(fn, path, "", "none", 0)>>
    /\ UNCHANGED <<client, built>>

\* c.post(path, data), c.put(path, data): the body is serialized before anything is sent
ClientSend(fn, path, data) ==
    /\ Ready
    /\ fn \in {"post", "put"}
    /\ LET body == ToJsonString(data) IN
       IF Returns(body)
       THEN /\ op' = Done(Begin("client." \o fn, "call", FALSE), Err(ErrSerde))
            /\ calls' = <<>>
       ELSE /\ op' = Begin("client." \o fn, "call", FALSE)
            /\ calls' = <<NewCall(fn, path, body.val, "none", 0)>>
    /\ UNCHANGED <<client, built>>

\* OvhDnsRecord::get(c, zone, id)
DnsGet(id) ==
    /\ Ready
    /\ op' = Begin("dns.get", "dns_get", FALSE)
    /\ calls' = <<NewCall("get", DnsRecordPath(Zone, id), "", "dns_record", id)>>
    /\ UNCHANGED <<client, built>>

\* OvhDnsRecord::list_filtered(c, zone, record_type, subdomain); list is the call with (None, None)
DnsListFiltered(record_type, subdomain) ==
    /\ Ready
    /\ op' = Begin("dns.list", "dns_ids", FALSE)
    /\ calls' = <<NewCall("get", DnsCollectionPath(Zone, record_type, subdomain), "",
                          "dns_ids", 0)>>
    /\ UNCHANGED <<client, built>>

\* OvhDnsRecord::create(c, subdomain, zone, record_type, ttl, target, apply_change)
DnsCreate(payload, apply_change) ==
    /\ Ready
    /\ LET body == ToJsonString(payload) IN
       IF Returns(body)
       THEN /\ op' = Done(Begin("dns.create", "dns_create", apply_change), Err(ErrSerde))
            /\ calls' = <<>>
       ELSE /\ op' = Begin("dns.create", "dns_create", apply_change)
            /\ calls' = <<NewCall("post", DnsCollectionPath(Zone, None, None), body.val,
                                  "dns_record", MaxIds + 1)>>
    /\ UNCHANGED <<client, built>>

\* OvhDnsRecord::delete(c, zone, id, apply_change)
DnsDelete(id, apply_change) ==
    /\ Ready
    /\ op' = Begin("dns.delete", "dns_delete", apply_change)
    /\ calls' = <<NewCall("delete", DnsRecordPath(Zone, id), "", "none", id)>>
    /\ UNCHANGED <<client, built>>

\* OvhDnsRecord::refresh_zone(c, zone)
DnsRefreshZone ==
    /\ Ready
    /\ op' = Begin("dns.refresh_zone", "dns_refresh", FALSE)
    /\ calls' = <<PostEmpty(DnsRefreshPath(Zone), "none")>>
    /\ UNCHANGED <<client, built>>

\* OvhMailRedir::list(c, domain)
MailList ==
    /\ Ready
    /\ op' = Begin("mail.list", "mail_ids", FALSE)
    /\ calls' = <<NewCall("get", MailCollectionPath(Domain), "", "mail_ids", 0)>>
    /\ UNCHANGED <<client, built>>

\* OvhMailRedir::create(c, domain, from, to, local_copy)
MailCreate(payload) ==
    /\ Ready
    /\ LET body == ToJsonString(payload) IN
       IF Returns(body)
       THEN /\ op' = Done(Begin("mail.create", "call", FALSE), Err(ErrSerde))
            /\ calls' = <<>>
       ELSE /\ op' = Begin("mail.create", "call", FALSE)
            /\ calls' = <<NewCall("post", MailCollectionPath(Domain), body.val, "none", 0)>>
    /\ UNCHANGED <<client, built>>

\* OvhMailRedir::delete(c, domain, id)
MailDelete(id) ==
    /\ Ready
    /\ op' = Begin("mail.delete", "call", FALSE)
    /\ calls' = <<NewCall("delete", MailRedirPath(Domain, id), "", "none", id)>>
    /\ UNCHANGED <<client, built>>

Complete(i, ret, tresp, skew) ==
    LET cs == [calls EXCEPT ![i].pc = "ret", ![i].ret = ret, ![i].skew = skew,
                            ![i].tresp = tresp, ![i].req = NoReq]
        next == Continue(op, cs, i, ret)
    IN /\ op' = next.op
       /\ calls' = next.calls

\* OvhClient::get_noauth up to send(): for "/auth/time" inside time_delta, or for the caller's path
GetNoauthSend(i) ==
    /\ op.pc # "panicked"
    /\ i \in 1..Len(calls)
    /\ calls[i].pc = "start"
    /\ LET own == calls[i].fn = "get_noauth"
           path == IF own THEN calls[i].path ELSE "/auth/time" IN
       calls' = [calls EXCEPT ![i].pc = IF own THEN "resp_wait" ELSE "time_wait",
                              ![i].ntime = IF own THEN @ ELSE @ + 1,
                              ![i].req = Request(FALSE, "GET", Url(client.val, path),
                                                 DefaultHeaders(client.val), "")]
    /\ UNCHANGED <<client, built, op>>

\* OvhClient::time_delta from the answer of the time endpoint on
TimeDeltaReturn(i) ==
    /\ op.pc # "panicked"
    /\ i \in 1..Len(calls)
    /\ calls[i].pc = "time_wait"
    /\ \E resp \in TimeResponses, local \in LocalTimes :
         \E out \in TimeDelta(resp, local) :
            LET parsed == IF resp.tag = "Ok" THEN ParseU64(resp.val) ELSE None
                skew == IF parsed.tag = "Some"
                        THEN [l |-> local, r |-> parsed.val,
                              delta |-> IF out.tag = "Ok" THEN out.val ELSE 0, now |-> 0]
                        ELSE NoSkew
            IN IF out.tag = "Ok" /\ calls[i].fn # "time_delta"
               THEN /\ calls' = [calls EXCEPT ![i].pc = "sign", ![i].req = NoReq,
                                   ![i].tresp = resp, ![i].skew = skew]
                    /\ op' = op
               ELSE Complete(i, out, resp, skew)
    /\ UNCHANGED <<client, built>>

\* OvhClient::gen_headers after time_delta, and the send() of get, delete, post, put
GenHeadersSend(i) ==
    /\ op.pc # "panicked"
    /\ i \in 1..Len(calls)
    /\ calls[i].pc = "sign"
    /\ \E now \in LocalTimes :
         LET c == calls[i]
             url == Url(client.val, c.path)
             headers == GenHeaders(client.val, url, Method(c.fn), c.body, c.skew.delta, now)
         IN calls' = [calls EXCEPT ![i].pc = "resp_wait", ![i].nsigned = @ + 1,
                        ![i].skew.now = now,
                        ![i].req = Request(TRUE, Method(c.fn), url, headers, c.body)]
    /\ UNCHANGED <<client, built, op>>

\* send().await returns: a transport error, or the server's response
Respond(i) ==
    /\ op.pc # "panicked"
    /\ i \in 1..Len(calls)
    /\ calls[i].pc = "resp_wait"
    /\ \E ret \in {Err(ErrReqwest)} \cup {Ok(r) : r \in Responses(calls[i])} :
         Complete(i, ret, Pending, NoSkew)
    /\ UNCHANGED <<client, built>>

\* record.fqn() on the record get or create returned, or on the k-th of a list
FqnOfResult(k) ==
    /\ op.pc = "done" /\ op.result.tag = "Ok" /\ op.fqn = None
    /\ op.kind \in {"dns.get", "dns.create", "dns.list"}
    /\ IF op.kind = "dns.list" THEN k \in 1..Len(op.result.val) ELSE k = 1
    /\ LET record == IF op.kind = "dns.list" THEN op.result.val[k] ELSE op.result.val IN
       op' = [op EXCEPT !.fqn = Some([record |-> record, text |-> Fqn(record)])]
    /\ UNCHANGED <<client, built, calls>>

\* record.fqn() on a record the caller built
FqnOfLocal(record) ==
    /\ op.pc = "idle"
    /\ op' = [Begin("record.fqn", "done", FALSE) EXCEPT
                 !.at = "fqn", !.result = Ok(Unit),
                 !.fqn = Some([record |-> record, text |-> Fqn(record)])]
    /\ calls' = <<>>
    /\ UNCHANGED <<client, built>>

\* the caller takes the result and is ready for its next operation
Finish ==
    /\ op.pc = "done"
    /\ op' = OpIdle
    /\ calls' = <<>>
    /\ UNCHANGED <<client, built>>

Next ==
    \/ \E e \in EndpointIds : New(e)
    \/ \E conf \in Confs : FromConf(conf)
    \/ \E fn \in {"get", "delete", "get_noauth", "time_delta"}, path \in RawPaths :
          ClientCall(fn, path)
    \/ \E fn \in {"post", "put"}, path \in RawPaths, data \in MailPayloads :
          ClientSend(fn, path, data)
    \/ \E id \in RecordIds : DnsGet(id)
    \/ \E f \in Filters : DnsListFiltered(f[1], f[2])
    \/ \E payload \in DnsPayloads, apply_change \in BOOLEAN : DnsCreate(payload, apply_change)
    \/ \E id \in RecordIds, apply_change \in BOOLEAN : DnsDelete(id, apply_change)
    \/ DnsRefreshZone
    \/ MailList
    \/ \E payload \in MailPayloads : MailCreate(payload)
    \/ \E id \in RecordIds : MailDelete(DecStr(id))
    \/ \E i \in 1..MaxIds : GetNoauthSend(i)
    \/ \E i \in 1..MaxIds : TimeDeltaReturn(i)
    \/ \E i \in 1..MaxIds : GenHeadersSend(i)
    \/ \E i \in 1..MaxIds : Respond(i)
    \/ \E k \in 1..MaxIds : FqnOfResult(k)
    \/ \E record \in LocalRecords : FqnOfLocal(record)
    \/ Finish

Spec == Init /\ [][Next]_vars

(***************************************************************************)
(* Properties.                                                             *)
(***************************************************************************)
SignedFns == {"get", "delete", "post", "put", "post_empty"}
Calls == {calls[i] : i \in 1..Len(calls)}
ClientFields == {"endpoint", "application_key", "application_secret", "consumer_key"}
TimestampOf(req) == req.headers["X-Ovh-Timestamp"].value
IsTimeRequest(req) ==
    /\ req.sent /\ ~req.auth /\ req.method = "GET"
    /\ req.url = client.val.endpoint \o "/auth/time"

C2_TimestampForEverySkew ==
    \A c \in Calls :
        (c.fn \in SignedFns /\ c.tresp.tag = "Ok" /\ ParseU64(c.tresp.val).tag = "Some") =>
            /\ c.pc \in {"sign", "resp_wait"}
            /\ c.pc = "resp_wait" =>
                  TimestampOf(c.req) = I64ToString(c.skew.now + (c.skew.l - c.skew.r))

\* C3: an endpoint identifier outside the table fails construction (new
\* returns None, from_conf returns Err) and leaves the caller without a
\* client; an identifier of the table makes new return a client whose base
\* URL is the table's entry for it.
C3_UnknownEndpointFails ==
    /\ (built.via # "none" /\ built.endpoint \notin DOMAIN ENDPOINTS) =>
          /\ client = None
          /\ built.via = "new" => built.ret = None
          /\ built.via = "from_conf" => built.ret.tag = "Err"
    /\ (built.via = "new" /\ built.endpoint \in DOMAIN ENDPOINTS) =>
          /\ built.ret.tag = "Some"
          /\ built.ret.val.endpoint = ENDPOINTS[built.endpoint]
          /\ client = built.ret
    /\ (built.via = "from_conf" /\ built.ret.tag = "Ok") =>
          /\ built.endpoint \in DOMAIN ENDPOINTS
          /\ built.ret.val.endpoint = ENDPOINTS[built.endpoint]
          /\ client = Some(built.ret.val)
    /\ DOMAIN ENDPOINTS = {"ovh-eu", "ovh-us", "ovh-ca", "kimsufi-eu", "kimsufi-ca",
                           "soyoustart-eu", "soyoustart-ca"}

\* C3 witness: new was called with an identifier that is not in the table.
C3_UnknownEndpointTried ==
    built.via = "new" /\ built.endpoint = "not-a-real-endpoint" /\ built.ret = None

\* a body that is a decimal integer
IsInteger(chars) == chars # <<>> /\ \A k \in 1..Len(chars) : \E d \in 1..10 : Digits[d] = chars[k]

Alternatives(v) == {v \o "x", "x" \o v, v \o "+", "+" \o v, "", "+"} \ {v}

\* C5: the signature of a request is "$1$" followed by the digest of
\* secret + "+" + consumer key + "+" + method + "+" + URL + "+" + body + "+"
\* + timestamp, in that order, and changing any one of the six fields
\* changes the string that is hashed.
C5_SignatureOfSixFields ==
    \A c \in Calls :
        c.req.auth =>
            LET k == client.val
                ts == TimestampOf(c.req)
                signed == k.application_secret \o "+" \o k.consumer_key \o "+" \o c.req.method
                            \o "+" \o c.req.url \o "+" \o c.req.body \o "+" \o ts
            IN /\ c.req.headers["X-Ovh-Signature"].value = "$1$" \o Sha1Hex(signed)
               /\ SignedString(k, c.req.url, ts, c.req.method, c.req.body) = signed
               /\ \A a \in Alternatives(k.application_secret) :
                     SignedString([k EXCEPT !.application_secret = a], c.req.url, ts,
                                  c.req.method, c.req.body) # signed
               /\ \A a \in Alternatives(k.consumer_key) :
                     SignedString([k EXCEPT !.consumer_key = a], c.req.url, ts,
                                  c.req.method, c.req.body) # signed
               /\ \A a \in Alternatives(c.req.method) :
                     SignedString(k, c.req.url, ts, a, c.req.body) # signed
               /\ \A a \in Alternatives(c.req.url) :
                     SignedString(k, a, ts, c.req.method, c.req.body) # signed
               /\ \A a \in Alternatives(c.req.body) :
                     SignedString(k, c.req.url, ts, c.req.method, a) # signed
               /\ \A a \in Alternatives(ts) :
                     SignedString(k, c.req.url, a, c.req.method, c.req.body) # signed

\* C5 witness: a signed request with a body is in flight.
C5_SignedBodyInFlight ==
    \E c \in Calls : c.req.auth /\ c.req.body # "" /\ c.req.method = "POST"

AuthHeaders == {"X-Ovh-Consumer", "X-Ovh-Timestamp", "X-Ovh-Signature"}

\* C6: every request carries X-Ovh-Application = application key; a
\* request of get, post, put or delete carries X-Ovh-Consumer,
\* X-Ovh-Timestamp and X-Ovh-Signature, the signature computed over the
\* method, URL, body and timestamp the request itself carries; a request of
\* get_noauth carries none of the three; Content-Type is present exactly
\* when the body is not empty.
C6_HeaderSet ==
    \A c \in Calls :
        /\ c.req.sent <=> c.pc \in {"time_wait", "resp_wait"}
        /\ c.req.sent =>
            LET h == c.req.headers IN
            /\ "X-Ovh-Application" \in DOMAIN h
            /\ h["X-Ovh-Application"].value = client.val.application_key
            /\ (c.pc = "resp_wait" /\ c.fn \in SignedFns) =>
                  /\ AuthHeaders \subseteq DOMAIN h
                  /\ h["X-Ovh-Consumer"].value = client.val.consumer_key
                  /\ h["X-Ovh-Signature"].value =
                        Signature(client.val, c.req.url, h["X-Ovh-Timestamp"].value,
                                  c.req.method, c.req.body)
                  /\ c.req.method = Method(c.fn)
                  /\ c.req.url = client.val.endpoint \o c.path
                  /\ c.req.body = c.body
            /\ (c.pc = "time_wait" \/ c.fn = "get_noauth") => AuthHeaders \cap DOMAIN h = {}
            /\ "Content-Type" \in DOMAIN h <=> c.req.body # ""
            /\ "Content-Type" \in DOMAIN h =>
                  h["Content-Type"].value = "application/json; charset=utf-8"

\* C6 witness: a PUT with a body is in flight, signed and typed.
C6_TypedPutInFlight ==
    \E c \in Calls :
        /\ c.fn = "put" /\ c.pc = "resp_wait" /\ c.req.body # ""
        /\ AuthHeaders \cup {"Content-Type"} \subseteq DOMAIN c.req.headers

JoinStages == {"dns_join", "mail_join"}
FetchPath(kind, id) ==
    IF kind = "dns.list" THEN DnsRecordPath(Zone, id) ELSE MailRedirPath(Domain, id)

\* C7: a list that obtained N ids makes one detail fetch per id, all of
\* them in flight together, returns only when every one has completed,
\* and, when all N succeed, returns N entities in the order of the ids,
\* whatever the order in which the fetches complete.
C7_ListJoinsInIdOrder ==
    /\ op.pc \in JoinStages =>
          /\ Len(calls) = Len(op.ids) /\ Len(op.outputs) = Len(op.ids)
          /\ \E k \in 1..Len(op.ids) : op.outputs[k].tag = "Pending"
          /\ \A k \in 1..Len(op.ids) :
                /\ calls[k].fn = "get" /\ calls[k].id = op.ids[k]
                /\ calls[k].path = FetchPath(op.kind, op.ids[k])
                /\ calls[k].nsigned <= 1
                /\ op.outputs[k].tag = "Pending" <=> calls[k].pc # "ret"
    /\ (op.pc = "done" /\ op.at \in JoinStages) =>
          /\ Len(calls) = Len(op.ids) /\ Len(op.outputs) = Len(op.ids)
          /\ \A k \in 1..Len(op.ids) : calls[k].pc = "ret" /\ calls[k].id = op.ids[k]
          /\ (\A k \in 1..Len(op.ids) : op.outputs[k].tag = "Ok") =>
                /\ op.result.tag = "Ok"
                /\ Len(op.result.val) = Len(op.ids)
                /\ \A k \in 1..Len(op.ids) :
                      /\ op.result.val[k].id = op.ids[k]
                      /\ op.result.val[k] = op.outputs[k].val
                      /\ calls[k].nsigned = 1

\* C7 witness: a list returned as many entities as the server listed ids,
\* two or more, in the order of the ids.
C7_ListReturnedAll ==
    /\ op.pc = "done" /\ op.at \in JoinStages /\ op.result.tag = "Ok"
    /\ Len(op.ids) = MaxIds /\ Len(op.result.val) = MaxIds
    /\ \A k \in 1..MaxIds : op.result.val[k].id = op.ids[k]

\* the detail fetches of a list are all in flight at once
C7_AllFetchesInFlight ==
    /\ op.pc \in JoinStages /\ Len(calls) = MaxIds
    /\ \A k \in 1..MaxIds : calls[k].pc = "resp_wait"

\* C8 as stated: in both families, a list one of whose detail fetches
\* failed returns an error, never a success that leaves the failed items out.
C8_ListReportsFailedFetch ==
    (/\ op.pc = "done" /\ op.at \in JoinStages
     /\ \E k \in 1..Len(op.outputs) : op.outputs[k].tag = "Err") =>
        op.result.tag = "Err"

\* the errors create returns when its POST fails
CreatePostErrors ==
    {ErrReqwest, ErrParseInt, ErrTryFromInt, ErrDecode} \cup
    {ErrStatus(r.status, client.val.endpoint \o DnsCollectionPath(Zone, None, None)) :
        r \in {f \in FailResponses : IsErr(ErrorForStatus(f, ""))}}

\* C9 as stated: when the POST of create was accepted and the refresh
\* failed, create returns an error from which the caller can tell that the
\* record exists: an error that a failed POST does not return.
C9_RefreshFailureTellsCreated ==
    (/\ op.kind = "dns.create" /\ op.pc = "done"
     /\ op.at = "dns_create_refresh" /\ op.result.tag = "Err") =>
        op.result.err \notin CreatePostErrors

\* a record as get and create hand it out
Handed(record) ==
    /\ record.subdomain # Some("")
    /\ record.ttl # Some(0)
    /\ Normalize(record) = record

\* record is the body the server sent, with "" and 0 turned to absent
NormalOf(body, record) ==
    /\ record.id = body.id /\ record.zone = body.zone
    /\ record.record_type = body.fieldType /\ record.target = body.target
    /\ record.subdomain =
          IF body.subDomain = JNull \/ body.subDomain = JStr("") THEN None
          ELSE Some(body.subDomain.s)
    /\ record.ttl =
          IF body.ttl = JNull \/ body.ttl = JNum(0) THEN None ELSE Some(body.ttl.n)

\* C10: every record returned by get (alone or in a list) and by create is
\* the server's record with subdomain "" and TTL 0 turned to absent and
\* everything else unchanged; normalizing it again changes nothing, and no
\* record handed out has subdomain "" or TTL 0.
C10_NormalizedBeforeHandedOut ==
    /\ (op.pc = "done" /\ op.result.tag = "Ok" /\ op.kind \in {"dns.get", "dns.create"}) =>
          Handed(op.result.val)
    /\ (op.pc = "done" /\ op.result.tag = "Ok" /\ op.at \in {"dns_get", "dns_create"}) =>
          NormalOf(calls[1].ret.val.body, op.result.val)
    /\ op.pc = "dns_create_refresh" => Handed(op.record.val)
    /\ (op.pc = "done" /\ op.result.tag = "Ok" /\ op.kind = "dns.list") =>
          \A k \in 1..Len(op.result.val) : Handed(op.result.val[k])
    /\ (op.pc = "dns_join" \/ (op.pc = "done" /\ op.at = "dns_join")) =>
          \A k \in 1..Len(op.outputs) :
              op.outputs[k].tag = "Ok" =>
                  /\ Handed(op.outputs[k].val)
                  /\ NormalOf(calls[k].ret.val.body, op.outputs[k].val)

\* C10 witness: get returned a record that the server sent with subdomain
\* "" and a TTL that is not 0.
C10_EmptySubdomainDropped ==
    /\ op.kind = "dns.get" /\ op.pc = "done" /\ op.result.tag = "Ok"
    /\ calls[1].ret.val.body.subDomain = JStr("")
    /\ op.result.val.subdomain = None
    /\ op.result.val.ttl = Some(60)

StartsWith(chars, ch) == chars # <<>> /\ Head(chars) = ch

\* C11: fqn returns zone + "." for a record without subdomain and
\* subdomain + "." + zone + "." for a record with one ("example.com." and
\* "www.example.com."); on a record returned by get or create, alone or in
\* a list, the name never starts with ".".
C11_FqnFormat ==
    op.fqn.tag = "Some" =>
        LET record == op.fqn.val.record
            text == op.fqn.val.text IN
        /\ record.subdomain = None => text = Chars(record.zone) \o <<".">>
        /\ record.subdomain.tag = "Some" =>
              text = Chars(record.subdomain.val) \o <<".">> \o Chars(record.zone) \o <<".">>
        /\ (record.zone = "example.com" /\ record.subdomain = None) =>
              text = <<"e", "x", "a", "m", "p", "l", "e", ".", "c", "o", "m", ".">>
        /\ (record.zone = "example.com" /\ record.subdomain = Some("www")) =>
              text = <<"w", "w", "w", ".", "e", "x", "a", "m", "p", "l", "e", ".", "c", "o", "m", ".">>
        /\ op.kind \in {"dns.get", "dns.create", "dns.list"} => ~StartsWith(text, ".")

\* C11 witness: fqn was called on a record that get returned and that the
\* server had sent with subdomain "": the name is the zone and ".".
C11_FqnOfNormalizedRecord ==
    /\ op.kind = "dns.get" /\ op.pc = "done" /\ op.fqn.tag = "Some"
    /\ calls[1].ret.val.body.subDomain = JStr("")
    /\ op.fqn.val.text = Chars(Zone) \o <<".">>

\* fqn of a record the caller built with subdomain "" starts with "."
C11_LocalEmptySubdomain ==
    /\ op.kind = "record.fqn" /\ op.fqn.tag = "Some"
    /\ op.fqn.val.record.subdomain = Some("")
    /\ StartsWith(op.fqn.val.text, ".")

IsRefresh(c) == c.fn = "post_empty" /\ c.path = DnsRefreshPath(Zone)
Mutations == {"dns.create", "dns.delete"}

\* the mutating request of create or delete returned a response that the
\* operation takes for a success
Accepted(kind, ret, statuses) ==
    /\ ret.tag = "Ok" /\ ret.val.status \in statuses
    /\ kind = "dns.create" => IsOk(JsonDnsRecord(ret.val))

\* the refresh of create and delete comes second, after the mutating
\* request returned a response with one of `statuses`, and only with
\* apply_change; without it, or after a failed request, there is none
RefreshFollows(statuses) ==
    /\ \A i \in 1..Len(calls) :
          IsRefresh(calls[i]) =>
              \/ op.kind = "dns.refresh_zone" /\ i = 1
              \/ /\ op.kind \in Mutations /\ op.apply_change /\ i = 2
                 /\ ~IsRefresh(calls[1]) /\ calls[1].pc = "ret" /\ calls[1].nsigned = 1
                 /\ calls[1].fn = (IF op.kind = "dns.create" THEN "post" ELSE "delete")
                 /\ Accepted(op.kind, calls[1].ret, statuses)
    /\ (op.kind \in Mutations /\ op.pc = "done" /\ Len(calls) = 1) =>
          \/ ~op.apply_change
          \/ ~Accepted(op.kind, calls[1].ret, statuses)

\* C12 as stated: with apply_change, the refresh POST of create and delete
\* is issued after the mutating request and only if that request returned
\* a 2xx response (for create, with a body that parses); after a failed
\* request, and without apply_change, no refresh is issued.
C12_RefreshOnlyAfter2xx == RefreshFollows(200..299)

\* what the code does: the refresh follows every response that is not 4xx or 5xx
C12_RefreshAfterNoErrorStatus == RefreshFollows((100..399) \cup (600..999))

\* delete sent its refresh after the server answered the DELETE with 304
C12_RefreshAfter304 ==
    /\ op.kind = "dns.delete" /\ Len(calls) = 2
    /\ calls[1].ret.tag = "Ok" /\ calls[1].ret.val.status = 304
    /\ calls[2].pc = "resp_wait" /\ IsRefresh(calls[2])

Repository ==
    {"dns.get", "dns.list", "dns.create", "dns.delete", "dns.refresh_zone",
     "mail.list", "mail.create", "mail.delete"}

\* call c got a response whose status is not in `statuses`
AnsweredOutside(c, statuses) ==
    c.pc = "ret" /\ c.ret.tag = "Ok" /\ c.ret.val.status \notin statuses

\* C13 as stated: an operation of either family one of whose requests the
\* server answered with a status that is not 2xx returns an error, and the
\* command-line tool's create and delete then exit with a failure status.
C13_Non2xxIsError ==
    (/\ op.kind \in Repository /\ op.pc = "done"
     /\ \E c \in Calls : AnsweredOutside(c, 200..299)) =>
        /\ IsErr(op.result)
        /\ op.kind \in {"mail.create", "mail.delete"} => MainExit(op.result) # 0

\* what the code does in the DNS family: a 4xx or 5xx answer is an error
C13_DnsErrorStatusIsError ==
    (/\ op.kind \in Repository \ {"mail.list", "mail.create", "mail.delete"}
     /\ op.pc = "done"
     /\ \E c \in Calls : AnsweredOutside(c, (100..399) \cup (600..999))) =>
        IsErr(op.result)

\* create of a mail redirection was answered 404 and returned Ok
C13_MailCreate404ReturnsOk ==
    /\ op.kind = "mail.create" /\ op.pc = "done"
    /\ IsOk(op.result) /\ op.result.val.status = 404
    /\ MainExit(op.result) = 0

\* the client the caller holds is the value its constructor returned
ClientAsBuilt ==
    /\ DOMAIN client.val = ClientFields
    /\ built.via = "new" => client = built.ret
    /\ built.via = "from_conf" => client = Some(built.ret.val)
    /\ built.via # "none"

\* the request of call c is made of the client's fields, the call's own
\* arguments, the skew the call measured and the time the call read
OwnRequest(c) ==
    LET h == c.req.headers
        k == client.val IN
    /\ c.req.sent /\ ~c.req.auth =>
          /\ c.req.url = k.endpoint \o (IF c.fn = "get_noauth" THEN c.path ELSE "/auth/time")
          /\ DOMAIN h = {"X-Ovh-Application"}
          /\ h["X-Ovh-Application"].value = k.application_key
    /\ c.req.auth =>
          /\ c.req.method = Method(c.fn) /\ c.req.body = c.body
          /\ c.req.url = k.endpoint \o c.path
          /\ h["X-Ovh-Application"].value = k.application_key
          /\ h["X-Ovh-Consumer"].value = k.consumer_key
          /\ h["X-Ovh-Timestamp"].value = I64ToString(c.skew.now + c.skew.delta)
          /\ h["X-Ovh-Signature"].value =
                "$1$" \o Sha1Hex(k.application_secret \o "+" \o k.consumer_key \o "+"
                                  \o Method(c.fn) \o "+" \o k.endpoint \o c.path \o "+"
                                  \o c.body \o "+" \o I64ToString(c.skew.now + c.skew.delta))

====
